---- MODULE Spec2Model ----
(***************************************************************************)
(* Model of lifeops-nepal: the intent router (agents/nodes/Orchestrator.py),*)
(* the reminder handler and its APScheduler-backed job store               *)
(* (agents/nodes/Reminder.py), and the shared MCP tool cache               *)
(* (mcp/client.py).                                                        *)
(*                                                                         *)
(* Time.  The clock `now` counts ticks of one second; tick t stands for    *)
(* the real-time interval (t, t+1), so that every operation happens        *)
(* strictly between two whole seconds.  A minute is SecPerMin ticks and a  *)
(* day MinPerDay minutes (both scaled down); a week is 7 days.             *)
(***************************************************************************)
EXTENDS Integers, Sequences, FiniteSets, TLC

\* ---------------------------------------------------------------- bounds
MaxTime == 6
MaxTurnTime == 1
MaxUpserts == 2
SecPerMin == 2
MinPerDay == 2
MaxRunDt == 2
MaxRestarts == 1
MaxTurns == 2
NumSessions == 1

\* ------------------------------------------------------- program constants
DaysPerWeek == 7
MaxInstances == 1
MisfireGraceTime == 1

DayLen == SecPerMin * MinPerDay
WeekLen == DaysPerWeek * DayLen

None == -1
AnyDay == -1

Sessions == 1..NumSessions
Numbers == {"9771", "9772"}
Bodies == {"call mom", "stretch"}
RepeatRules == {"daily", "weekly", "none"}
\* the timestamps an extraction can carry: the next few seconds, and one more than a
\* day ahead
FarRunDt == DayLen + MaxRunDt
RunDts == (0..MaxRunDt) \cup {FarRunDt}

\* ------------------------------------------------------------ state
VARIABLES
    now,          \* wall clock, in ticks
    scheduler,    \* Reminder._scheduler: "none" or "started"
    started,      \* number of AsyncIOScheduler instances constructed since process start
    store,        \* jobs of the scheduler's (in-memory) job store
    inst,         \* job instances submitted to the executor and not yet finished
    mcp_tools,    \* client._tools: the cached tool names
    mcp_client,   \* client._client: the servers of the last client made, {} for None
    pc,           \* pc[s]: where session s's current turn is suspended
    st,           \* st[s]: the session's AgentState (checkpointed)
    turn,         \* turn[s]: what the current/last turn of s has done (history)
    turns,        \* number of turns started (bounded by MaxTurns)
    gens,         \* number of add_job calls made so far (history)
    last,         \* last[id]: the last add_job for that id: generation and arguments (history)
    fired,        \* <<gen, run_time>> of every _fire_reminder invocation (history)
    refired,      \* the <<gen, run_time>> for which _fire_reminder was invoked again (history)
    finished,     \* <<gen, run_time, result>> of every finished _fire_reminder (history)
    skipped,      \* <<gen, run_time>> of every run the executor dropped as missed (history)
    restarts      \* number of process restarts so far (history)

vars == <<now, scheduler, started, store, inst, mcp_tools, mcp_client, pc, st,
          turn, turns, gens, last, fired, refired, finished, skipped, restarts>>

histVars == <<fired, refired, finished, skipped, restarts>>
schedVars == <<scheduler, started, store, inst, gens, last, histVars>>
sessVars == <<pc, st, turn, turns>>
mcpVars == <<mcp_tools, mcp_client>>

\* ------------------------------------------------------------ intent router
Intents == {"travel_planning", "reminder", "creative", "unknown"}
Handlers == {"travel_agent", "reminder_agent", "creative_agent", "unknown_handler"}
NoIntent == "<absent>"

\* Orchestrator.route_to_agent: dict lookup with default
RouteTable ==
    [travel_planning |-> "travel_agent", reminder |-> "reminder_agent",
     creative |-> "creative_agent", unknown |-> "unknown_handler"]

DictGet(d, key, default) == IF key \in DOMAIN d THEN d[key] ELSE default

\* the lookup without its default: an unknown label gives no handler
route_to_agent_nodefault(state) ==
    DictGet(RouteTable,
            IF state.intent = NoIntent THEN "unknown" ELSE state.intent,
            "<None>")

route_to_agent(state) ==
    DictGet(RouteTable,
            IF state.intent = NoIntent THEN "unknown" ELSE state.intent,
            "unknown_handler")

\* classify_intent_node's result: the label, or "unknown" when the extractor call
\* raised or gave no usable record (the except branch)
ClassifiedIntent_nofallback(out) == out

ClassifiedIntent(out) == IF out \in Intents THEN out ELSE "unknown"

\* build_graph's conditional edges: the node each returned handler name leads to
EdgeMap ==
    [travel_agent |-> "travel_agent", reminder_agent |-> "reminder_agent",
     creative_agent |-> "creative_agent", unknown_handler |-> "unknown_handler"]

\* ------------------------------------------------------------ time and triggers
MinuteOfDay(t) == (t % DayLen) \div SecPerMin
DayOfWeek(t) == (t \div DayLen) % DaysPerWeek

DateTrigger(run_dt) == [kind |-> "date", run_date |-> run_dt, dow |-> AnyDay, minute |-> None]
CronTrigger(day_of_week, minute) ==
    [kind |-> "cron", run_date |-> None, dow |-> day_of_week, minute |-> minute]

\* _schedule_reminder's choice of trigger from repeat_rule
TriggerFor(run_dt, repeat_rule) ==
    IF repeat_rule = "daily" THEN CronTrigger(AnyDay, MinuteOfDay(run_dt))
    ELSE IF repeat_rule = "weekly" THEN CronTrigger(DayOfWeek(run_dt), MinuteOfDay(run_dt))
    ELSE DateTrigger(run_dt)

\* a cron trigger fires at second 0 of its minute, on its day of week
CronMatches(trig, t) ==
    /\ t % DayLen = trig.minute * SecPerMin
    /\ trig.dow = AnyDay \/ DayOfWeek(t) = trig.dow

\* the first matching time strictly after tick t
CronNextAfter(trig, t) ==
    CHOOSE m \in (t + 1)..(t + WeekLen) :
        /\ CronMatches(trig, m)
        /\ \A k \in (t + 1)..(m - 1) : ~CronMatches(trig, k)

\* trigger.get_next_fire_time(previous_fire_time, now)
GetNextFireTime(trig, previous, clock) ==
    IF trig.kind = "date"
    THEN (IF previous = None THEN trig.run_date ELSE None)
    ELSE CronNextAfter(trig, IF previous = None THEN clock ELSE previous)

\* Job._get_run_times(now): every fire time from next_run_time up to now
RECURSIVE GetRunTimes(_, _, _)
GetRunTimes(trig, next, clock) ==
    IF next = None \/ next > clock THEN <<>>
    ELSE <<next>> \o GetRunTimes(trig, GetNextFireTime(trig, next, clock), clock)

\* coalesce=True (the scheduler default): only the last due run time is run
Coalesced(run_times) == IF run_times = <<>> THEN <<>> ELSE <<run_times[Len(run_times)]>>

\* ------------------------------------------------------------ job store
\* timestamps with a fraction are counted in tenths of a second
TenthsPerSec == 10

\* format(x, ".0f") of a timestamp given in tenths: the nearest whole second, a tie
\* going to the even one
Format0f(tenths) ==
    LET q == tenths \div TenthsPerSec
        r == tenths % TenthsPerSec
    IN  IF 2 * r < TenthsPerSec THEN q
        ELSE IF 2 * r > TenthsPerSec THEN q + 1
        ELSE IF q % 2 = 0 THEN q ELSE q + 1

\* the id= argument of _schedule_reminder: f"reminder_{to_number}_{run_dt.timestamp():.0f}"
job_id(to_number, tenths) == <<"reminder", to_number, Format0f(tenths)>>

\* the id of a fire time on a whole second
JobId(to_number, run_dt) == job_id(to_number, run_dt * TenthsPerSec)

Job(to_number, message, run_dt, repeat_rule, gen, clock) ==
    [id |-> JobId(to_number, run_dt), to |-> to_number, msg |-> message,
     trig |-> TriggerFor(run_dt, repeat_rule),
     next |-> GetNextFireTime(TriggerFor(run_dt, repeat_rule), None, clock),
     gen |-> gen]

\* scheduler.add_job(..., replace_existing=True) on a running scheduler
\* add_job that does not replace the job already stored under the id
AddJob_keep(jobs, job) == jobs \cup {job}

AddJob(jobs, job) == {j \in jobs : j.id # job.id} \cup {job}

DueJobs(jobs, clock) == {j \in jobs : j.next # None /\ j.next <= clock}

LastRunTime(j, clock) == Coalesced(GetRunTimes(j.trig, j.next, clock))[1]

\* BaseScheduler._process_jobs, store side: a due job gets its next run time, or is
\* removed when its trigger has none
\* every job removed after its run, as if no trigger had a next fire time
AfterRun_remove(j, clock) == {}

\* the job left as it is after its run: the same occurrence stays due
AfterRun_same(j, clock) == {j}

\* the next run time computed from the first due run time, not the last one
AfterRun_nocatchup(j, clock) ==
    LET nxt == GetNextFireTime(j.trig, j.next, clock)
    IN  IF nxt = None THEN {} ELSE {[j EXCEPT !.next = nxt]}

AfterRun(j, clock) ==
    LET nxt == GetNextFireTime(j.trig, LastRunTime(j, clock), clock)
    IN  IF nxt = None THEN {} ELSE {[j EXCEPT !.next = nxt]}

\* BaseExecutor.submit_job: refused when the job id already has max_instances running
\* an executor that never refuses a run
CanSubmit_always(instances, id) == TRUE

CanSubmit(instances, id) ==
    Cardinality({i \in instances : i.id = id}) < MaxInstances

Instance(j, clock) ==
    [id |-> j.id, gen |-> j.gen, to |-> j.to, msg |-> j.msg,
     run_time |-> LastRunTime(j, clock), pc |-> "submitted"]

\* run_coroutine_job's misfire test: the run is dropped when it starts later than
\* misfire_grace_time (1 second) after its run time
Missed(run_time, clock) == clock - run_time >= MisfireGraceTime

\* ------------------------------------------------------------ MCP tool cache
Servers == {"travel", "comms", "moodboard"}
NameOf ==
    [travel |-> <<"travel">>, comms |-> <<"comms">>, moodboard |-> <<"moodboard">>,
     get_weather |-> <<"get", "_", "weather">>,
     search_flights |-> <<"search", "_", "flights">>,
     search_hotels |-> <<"search", "_", "hotels">>,
     send_whatsapp_message |-> <<"send", "_", "whatsapp", "_", "message">>,
     generate_moodboard |-> <<"generate", "_", "moodboard">>]
ServerTools ==
    [travel |-> {"get_weather", "search_flights", "search_hotels"},
     comms |-> {"send_whatsapp_message"},
     moodboard |-> {"generate_moodboard"}]

\* Python's `a in b` on names, as sequences of name parts
Contains(sub, s) ==
    \E i \in 1..(Len(s) - Len(sub) + 1) : SubSeq(s, i, i + Len(sub) - 1) = sub

\* get_mcp_tools: the tools a first call loads, and the filter applied on return
LoadedTools(servers) == UNION {ServerTools[k] : k \in servers}
FilterTools(tools, servers) ==
    {t \in tools : \E srv \in servers : Contains(NameOf[srv], NameOf[t])}

\* ------------------------------------------------------------ reminder extraction
\* ReminderExtraction.scheduled_for: a word, or an ISO timestamp of second t
Words == {"now", "NOW", "Now", "soon"}
TimeExprs == [text : Words, t : {None}] \cup [text : {"iso"}, t : RunDts]

\* str.lower()
Lower(text) == IF text \in {"NOW", "Now"} THEN "now" ELSE text

\* datetime.fromisoformat: the timestamp, or None for ValueError
fromisoformat(x) == IF x.text = "iso" THEN x.t ELSE None

\* reminder_agent_node lines 87-93
\* the sentinel test without the fallback for an unparseable timestamp
send_now_nofallback(x) == Lower(x.text) = "now"

send_now(x) == Lower(x.text) = "now" \/ fromisoformat(x) = None

Extractions ==
    [reminder_message : Bodies \cup {""}, scheduled_for : TimeExprs,
     to_number : Numbers \cup {"<none>", ""}, repeat_rule : RepeatRules \cup {"<none>"}]

\* `a or b` on optional strings
\* `a or b` taken the other way round: b whenever b is there
OrElse_swapped(a, b) == IF b # "<none>" /\ b # "" THEN b ELSE a

OrElse(a, b) == IF a # "<none>" /\ a # "" THEN a ELSE b

\* `not to_number` (line 77): None or the empty string
\* the test that never finds the recipient missing
Missing_never(x) == FALSE

Missing(x) == x \in {"<none>", ""}

\* ------------------------------------------------------------ the send tool
\* what the POST to the WhatsApp API can come to
HttpOutcomes == {"accepted", "malformed", "rejected", "timeout"}

\* what opening the MCP client and listing its tools can come to
LoadOutcomes == {"ok", "unreachable", "timeout"}

ToolRaised == [status |-> "<raise>", error |-> "<none>"]

\* comms.send_whatsapp_message lines 63-81: status sent for an accepted post whose
\* body carries the message id; HTTPStatusError and every other exception (timeout,
\* a body without messages[0].id) give status error with the exception's text
send_whatsapp_message(http) ==
    IF http = "accepted"
    THEN [status |-> "sent", error |-> "<none>"]
    ELSE [status |-> "error", error |-> http]

\* _send_whatsapp_now lines 119-130: the response text for the tool's result, or for
\* an exception out of the tool call
send_whatsapp_now_result(result) ==
    IF result.status = "<raise>" THEN "send_exception"
    ELSE IF result.status = "sent" THEN "sent"
    ELSE "send_failed"

\* ------------------------------------------------------------ moodboard server
\* moodboard.generate_moodboard line 51: count = min(2, min(count, 3))
MaxImages == 2
CountCap == 3
Min(a, b) == IF a <= b THEN a ELSE b

\* CreativeExtraction.count: an integer validated to lie between 1 and 2
Counts == {1, 2}

\* what one POST to the image provider ends in: status 200 with an image, another
\* status, an exception with a message, an exception whose str() is empty
ProviderOutcomes == {"200", "non200", "exception", "timeout"}

\* the error text of a failed provider call (lines 73 and 85)
ErrorText(outcome) ==
    CASE outcome = "non200" -> "fal_error"
      [] outcome = "exception" -> "exception_text"
      [] OTHER -> ""

\* the turn did not call the tool
NoMoodboard == [count |-> None, calls |-> 0, images |-> 0, error |-> "<none>",
                returned |-> "<none>"]

ImageCap(count) == Min(MaxImages, Min(count, CountCap))

\* the loop of lines 60-85 from call i on: a failed call returns a MoodboardResult
\* with the images so far and the error; when the loop runs to its end the function
\* body ends without a return statement, and the call evaluates to None
RECURSIVE MoodboardLoop(_, _, _, _, _)
MoodboardLoop(i, n, count, outcomes, images) ==
    IF i > n
    THEN [count |-> count, calls |-> i - 1, images |-> images, error |-> "<none>",
          returned |-> "None"]
    ELSE IF outcomes[i] = "200"
    THEN MoodboardLoop(i + 1, n, count, outcomes, images + 1)
    ELSE [count |-> count, calls |-> i, images |-> images,
          error |-> ErrorText(outcomes[i]), returned |-> "MoodboardResult"]

generate_moodboard(count, outcomes) ==
    MoodboardLoop(1, ImageCap(count), count, outcomes, 0)

\* creative_agent_node lines 67-104 on the tool's answer: a None result does not
\* pass as the tool's declared MoodboardResult and reaches the handler as a tool
\* exception; otherwise the error, the empty image list, or the moodboard
creative_response(mb) ==
    IF mb.returned = "None" THEN "image_exception"
    ELSE IF mb.error # "" THEN "image_error"
    ELSE IF mb.images = 0 THEN "no_images"
    ELSE "moodboard"

\* ------------------------------------------------------------ session state
Msg(role, text) == [role |-> role, text |-> text]

\* LangGraph applying a node's returned dict: "messages" goes through add_messages,
\* "final_response" is overwritten, a key that is no channel ("message") is dropped
\* the returned dict taken as the whole new state: channels it does not name are lost
ApplyUpdate_replace(state, key, text) ==
    [state EXCEPT !.final_response = text,
                  !.messages = IF key = "messages" THEN Append(@, Msg("ai", text)) ELSE @,
                  !.user_phone = "<none>"]

ApplyUpdate(state, key, text) ==
    [state EXCEPT !.final_response = text,
                  !.messages = IF key = "messages" THEN Append(@, Msg("ai", text)) ELSE @]

NewTurn(n) ==
    [n |-> n, result |-> "running", classified |-> "<none>", handler |-> "<none>",
     path |-> "<none>", sends |-> 0, adds |-> 0, to |-> "<none>", msg |-> "<none>",
     expr |-> [text |-> "<none>", t |-> None], servers |-> {},
     extract |-> "<none>", override |-> "<none>", rule |-> "<none>", gen |-> 0,
     io |-> "<none>", calls |-> 0, mb |-> NoMoodboard]

\* the turn of session s ends: the node returned (its update is applied to `state`,
\* the session state the node started from) or raised
Return(s, state, key, text, t) ==
    /\ st' = [st EXCEPT ![s] = ApplyUpdate(state, key, text)]
    /\ turn' = [turn EXCEPT ![s] = [t EXCEPT !.result = "returned"]]
    /\ pc' = [pc EXCEPT ![s] = "idle"]

Raise(s, state, t) ==
    /\ st' = [st EXCEPT ![s] = state]
    /\ turn' = [turn EXCEPT ![s] = [t EXCEPT !.result = "raised"]]
    /\ pc' = [pc EXCEPT ![s] = "idle"]

Suspend(s, state, where, t) ==
    /\ st' = [st EXCEPT ![s] = state]
    /\ turn' = [turn EXCEPT ![s] = t]
    /\ pc' = [pc EXCEPT ![s] = where]

\* ------------------------------------------------------------ initial state
Init ==
    /\ now = 0
    /\ scheduler = "none"
    /\ started = 0
    /\ store = {}
    /\ inst = {}
    /\ mcp_tools = {}
    /\ mcp_client = {}
    /\ pc = [s \in Sessions |-> "idle"]
    /\ st \in [Sessions -> [messages : {<<>>}, user_phone : {"<none>", "9771"},
                            intent : {NoIntent}, final_response : {"<none>"}]]
    /\ turn = [s \in Sessions |-> [NewTurn(0) EXCEPT !.result = "<none>"]]
    /\ turns = 0
    /\ gens = 0
    /\ last = <<>>
    /\ fired = {}
    /\ refired = {}
    /\ finished = {}
    /\ skipped = {}
    /\ restarts = 0

\* ------------------------------------------------------------ clock
TickTo(limit) ==
    /\ now < limit
    /\ now' = now + 1
    /\ UNCHANGED <<schedVars, sessVars, mcpVars>>

Tick == TickTo(MaxTurnTime)

LongTick == TickTo(MaxTime)

\* ------------------------------------------------------------ tool calls of a turn
\* what a handler does with the tool list get_mcp_tools returned
\* (_send_whatsapp_now lines 114-117, creative_agent_node lines 61-65)
AfterTools(s, t, tools) ==
    IF t.handler = "reminder_agent"
    THEN IF "send_whatsapp_message" \in tools
         THEN Suspend(s, st[s], "invoke", t)
         ELSE Return(s, st[s], "message", "tool_unavailable", t)
    ELSE IF "generate_moodboard" \in tools
         THEN Suspend(s, st[s], "invoke", t)
         ELSE Return(s, st[s], "messages", "moodboard_unavailable", t)

\* get_mcp_tools(servers) called from a turn: a filled cache answers at once, an
\* empty one opens a client and waits for it
get_mcp_tools(s, t, servers) ==
    IF mcp_tools = {}
    THEN /\ mcp_client' = servers
         /\ mcp_tools' = mcp_tools
         /\ Suspend(s, st[s], "load", [t EXCEPT !.servers = servers])
    ELSE /\ UNCHANGED mcpVars
         /\ AfterTools(s, t, FilterTools(mcp_tools, servers))

\* a _get_scheduler that constructs and starts a scheduler on every call
get_scheduler_always(sched, n, jobs) ==
    [scheduler |-> "started", started |-> n + 1, store |-> {}]

\* Reminder._get_scheduler: the module-level scheduler, constructed and started (with
\* an empty job store) when the global is still None; n counts the constructions
get_scheduler(sched, n, jobs) ==
    IF sched = "none"
    THEN [scheduler |-> "started", started |-> n + 1, store |-> {}]
    ELSE [scheduler |-> sched, started |-> n, store |-> jobs]

\* _schedule_reminder: add_job under the derived id on the scheduler _get_scheduler
\* returned
schedule_reminder(to_number, message, run_dt, repeat_rule) ==
    /\ scheduler' = get_scheduler(scheduler, started, store).scheduler
    /\ started' = get_scheduler(scheduler, started, store).started
    /\ gens' = gens + 1
    /\ store' = AddJob(get_scheduler(scheduler, started, store).store,
                       Job(to_number, message, run_dt, repeat_rule, gens + 1, now))
    /\ last' = (JobId(to_number, run_dt) :>
                    [gen |-> gens + 1, to |-> to_number, msg |-> message, run_dt |-> run_dt,
                     repeat_rule |-> repeat_rule, far |-> run_dt - now > DayLen]) @@ last
    /\ UNCHANGED <<inst, histVars>>

\* ------------------------------------------------------------ a turn
\* the travel handler: answers the turn with its response
travel_agent_node(s, state, t) == Return(s, state, "messages", "travel", t)

\* Orchestrator.unknown_handler_node: the help text, returned under the key "message"
unknown_handler_node(s, state, t) == Return(s, state, "message", "help", t)

\* graph entry and classify_intent_node up to its await.  llm_ok: whether building
\* the model client and its structured-output wrapper (outside the node's try)
\* succeeded; it depends on the settings and the installed libraries.
TurnStart(s) ==
    /\ pc[s] = "idle"
    /\ turns < MaxTurns
    /\ turns' = turns + 1
    /\ \E withMessage \in BOOLEAN, llm_ok \in BOOLEAN :
        LET state == IF withMessage
                     THEN [st[s] EXCEPT !.messages = Append(@, Msg("human", "user"))]
                     ELSE st[s]
            t == NewTurn(turns + 1)
        IN  IF state.messages = <<>>
            THEN unknown_handler_node(s, [state EXCEPT !.intent = "unknown"],
                                [t EXCEPT !.classified = "unknown",
                                          !.handler = "unknown_handler"])
            ELSE IF llm_ok THEN Suspend(s, state, "classify", t)
                 ELSE Raise(s, state, t)
    /\ UNCHANGED <<now, schedVars, mcpVars>>

\* classify_intent_node after its await, route_to_agent, and the chosen handler up
\* to its first await (for the reminder and creative handlers: building the model
\* client and its structured-output wrapper, llm_ok, which is outside their try)
classify_intent_node(s) ==
    /\ pc[s] = "classify"
    /\ \E out \in Intents \cup {"<raise>", "<malformed>"}, llm_ok \in BOOLEAN :
        LET state == [st[s] EXCEPT !.intent = ClassifiedIntent(out)]
            h == DictGet(EdgeMap, route_to_agent(state), "<no edge>")
            t == [turn[s] EXCEPT !.classified = out, !.handler = h]
        IN  CASE h = "unknown_handler" -> unknown_handler_node(s, state, t)
              [] h = "travel_agent" -> travel_agent_node(s, state, t)
              [] h = "reminder_agent" ->
                    IF llm_ok THEN Suspend(s, state, "extract", t)
                    ELSE Raise(s, state, [t EXCEPT !.extract = "no_extractor"])
              [] h = "creative_agent" ->
                    IF llm_ok THEN Suspend(s, state, "creative", t) ELSE Raise(s, state, t)
              [] OTHER -> Raise(s, state, t)
    /\ UNCHANGED <<now, turns, schedVars, mcpVars>>

\* reminder_agent_node after the extractor call
reminder_agent_node(s) ==
    /\ pc[s] = "extract"
    /\ UNCHANGED <<now, turns>>
    /\ \E ok \in BOOLEAN, e \in Extractions :
        LET to_number == OrElse(e.to_number, st[s].user_phone)
            t == [turn[s] EXCEPT !.extract = "ok", !.override = e.to_number,
                                 !.rule = e.repeat_rule, !.to = to_number,
                                 !.msg = e.reminder_message, !.expr = e.scheduled_for]
        IN  IF ~ok
            THEN /\ Return(s, st[s], "messages", "parse_error",
                           [turn[s] EXCEPT !.extract = "failed"])
                 /\ UNCHANGED <<schedVars, mcpVars>>
            ELSE IF Missing(to_number)
            THEN /\ Return(s, st[s], "messages", "need_phone", t)
                 /\ UNCHANGED <<schedVars, mcpVars>>
            ELSE IF send_now(e.scheduled_for)
            THEN /\ get_mcp_tools(s, [t EXCEPT !.path = "send_now", !.sends = @ + 1], {"comms"})
                 /\ UNCHANGED schedVars
            ELSE /\ schedule_reminder(to_number, e.reminder_message,
                                     fromisoformat(e.scheduled_for),
                                     OrElse(e.repeat_rule, "none"))
                 /\ Return(s, st[s], "message", "scheduled",
                           [t EXCEPT !.path = "schedule", !.adds = @ + 1, !.gen = gens + 1])
                 /\ UNCHANGED mcpVars

\* creative_agent_node after the extractor call
creative_agent_node(s) ==
    /\ pc[s] = "creative"
    /\ UNCHANGED <<now, turns, schedVars>>
    /\ \E ok \in BOOLEAN :
        IF ~ok
        THEN /\ Return(s, st[s], "messages", "creative_parse_error", turn[s])
             /\ UNCHANGED mcpVars
        ELSE get_mcp_tools(s, turn[s], {"moodboard"})

\* a turn waiting in get_mcp_tools for the client, or for the tool's answer
ToolStep(s) ==
    /\ pc[s] \in {"load", "invoke"}
    /\ UNCHANGED <<now, turns, schedVars, mcp_client>>
    /\ \E out \in LoadOutcomes \cup HttpOutcomes \cup {"raise", "answered"} :
        IF pc[s] = "load"
        THEN /\ out \in LoadOutcomes
             /\ IF out = "ok"
                THEN /\ mcp_tools' = LoadedTools(turn[s].servers)
                     /\ AfterTools(s, [turn[s] EXCEPT !.io = out],
                                   FilterTools(LoadedTools(turn[s].servers), turn[s].servers))
                ELSE /\ mcp_tools' = mcp_tools
                     /\ Raise(s, st[s], [turn[s] EXCEPT !.io = out])
        ELSE /\ mcp_tools' = mcp_tools
             /\ IF turn[s].handler = "reminder_agent"
                THEN /\ out \in HttpOutcomes \cup {"raise"}
                     /\ Return(s, st[s], "message",
                               send_whatsapp_now_result(
                                   IF out = "raise" THEN ToolRaised
                                   ELSE send_whatsapp_message(out)),
                               [turn[s] EXCEPT !.io = out, !.calls = @ + 1])
                ELSE /\ out \in {"answered", "raise"}
                     /\ IF out = "raise"
                        THEN Return(s, st[s], "messages", "image_exception",
                                    [turn[s] EXCEPT !.io = out])
                        ELSE \E count \in Counts,
                                outcomes \in [1..(MaxImages + 1) -> ProviderOutcomes] :
                                LET mb == generate_moodboard(count, outcomes)
                                IN  Return(s, st[s], "messages", creative_response(mb),
                                           [turn[s] EXCEPT !.io = out, !.mb = mb])

\* ------------------------------------------------------------ the scheduler
\* BaseScheduler._process_jobs: every due job is submitted to the executor with its
\* coalesced run time (unless the executor refuses it), then gets its next run time
\* or is removed
ProcessJobs ==
    /\ scheduler = "started"
    /\ DueJobs(store, now) # {}
    /\ LET due == DueJobs(store, now)
       IN  /\ inst' = inst \cup {Instance(j, now) : j \in {d \in due : CanSubmit(inst, d.id)}}
           /\ store' = (store \ due) \cup UNION {AfterRun(j, now) : j \in due}
    /\ UNCHANGED <<now, scheduler, started, gens, last, histVars, sessVars, mcpVars>>

\* the executor's bookkeeping when a job instance ends
Finish(i, result) ==
    /\ inst' = inst \ {i}
    /\ finished' = finished \cup {<<i.gen, i.run_time, result>>}

\* run_coroutine_job: the misfire test, then _fire_reminder and _send_whatsapp_now up
\* to the first await
fire_reminder(i) ==
    /\ i.pc = "submitted"
    /\ UNCHANGED <<now, scheduler, started, store, gens, last, restarts, sessVars>>
    /\ IF Missed(i.run_time, now)
       THEN /\ inst' = inst \ {i}
            /\ skipped' = skipped \cup {<<i.gen, i.run_time>>}
            /\ UNCHANGED <<fired, refired, finished, mcpVars>>
       ELSE /\ fired' = fired \cup {<<i.gen, i.run_time>>}
            /\ refired' = refired \cup ({<<i.gen, i.run_time>>} \cap fired)
            /\ skipped' = skipped
            /\ IF mcp_tools = {}
               THEN /\ mcp_client' = {"comms"}
                    /\ mcp_tools' = mcp_tools
                    /\ inst' = (inst \ {i}) \cup {[i EXCEPT !.pc = "load"]}
                    /\ finished' = finished
               ELSE /\ UNCHANGED mcpVars
                    /\ IF "send_whatsapp_message" \in FilterTools(mcp_tools, {"comms"})
                       THEN /\ inst' = (inst \ {i}) \cup {[i EXCEPT !.pc = "invoke"]}
                            /\ finished' = finished
                       ELSE Finish(i, "tool_unavailable")

\* a fired job waiting in get_mcp_tools for the client, or for the tool's answer
JobStep(i) ==
    /\ i.pc \in {"load", "invoke"}
    /\ UNCHANGED <<now, scheduler, started, store, gens, last, fired, refired, skipped,
                   restarts, sessVars, mcp_client>>
    /\ \E out \in LoadOutcomes \cup HttpOutcomes \cup {"raise"} :
        IF i.pc = "load"
        THEN /\ out \in LoadOutcomes
             /\ IF out = "ok"
                THEN /\ mcp_tools' = LoadedTools({"comms"})
                     /\ IF "send_whatsapp_message"
                              \in FilterTools(LoadedTools({"comms"}), {"comms"})
                        THEN /\ inst' = (inst \ {i}) \cup {[i EXCEPT !.pc = "invoke"]}
                             /\ finished' = finished
                        ELSE Finish(i, "tool_unavailable")
                ELSE /\ mcp_tools' = mcp_tools
                     /\ Finish(i, "tools_exception")
        ELSE /\ out \in HttpOutcomes \cup {"raise"}
             /\ mcp_tools' = mcp_tools
             /\ Finish(i, send_whatsapp_now_result(
                              IF out = "raise" THEN ToolRaised
                              ELSE send_whatsapp_message(out)))

\* the process stops and starts again: the module globals are back at their initial
\* values (Reminder.py line 15, client.py lines 21-22), the running turns and job
\* instances are gone, the checkpointed session state stays
Restart ==
    /\ restarts < MaxRestarts
    /\ restarts' = restarts + 1
    /\ scheduler' = "none"
    /\ started' = 0
    /\ store' = {}
    /\ inst' = {}
    /\ mcp_tools' = {}
    /\ mcp_client' = {}
    /\ pc' = [s \in Sessions |-> "idle"]
    /\ turn' = [s \in Sessions |->
                  IF pc[s] = "idle" THEN turn[s] ELSE [turn[s] EXCEPT !.result = "killed"]]
    /\ store # {} \/ inst # {} \/ mcp_tools # {} \/ mcp_client # {}
       \/ \E s \in Sessions : pc[s] # "idle"
    /\ UNCHANGED <<now, st, turns, gens, last, fired, refired, finished, skipped>>

\* _schedule_reminder called with arbitrary arguments
ScheduleCall ==
    /\ gens < MaxUpserts
    /\ \E to_number \in Numbers, message \in Bodies, run_dt \in RunDts,
          repeat_rule \in RepeatRules :
            schedule_reminder(to_number, message, run_dt, repeat_rule)
    /\ UNCHANGED <<now, sessVars, mcpVars>>

Next ==
    \/ Tick
    \/ \E s \in Sessions : TurnStart(s)
    \/ \E s \in Sessions : classify_intent_node(s)
    \/ \E s \in Sessions : reminder_agent_node(s)
    \/ \E s \in Sessions : creative_agent_node(s)
    \/ \E s \in Sessions : ToolStep(s)
    \/ ProcessJobs
    \/ \E i \in inst : fire_reminder(i)
    \/ \E i \in inst : JobStep(i)
    \/ Restart

Spec == Init /\ [][Next]_vars

\* the scheduler alone, over a longer stretch of time
SchedNext ==
    \/ LongTick
    \/ ScheduleCall
    \/ ProcessJobs
    \/ \E i \in inst : fire_reminder(i)
    \/ \E i \in inst : JobStep(i)
    \/ Restart

SchedSpec == Init /\ [][SchedNext]_vars

\* route_to_agent applied to an arbitrary checkpointed state
IntentValues == Intents \cup {NoIntent, "", "Reminder", "travel", "weather", "unknown_handler"}

RouteInit ==
    /\ now = 0 /\ scheduler = "none" /\ started = 0 /\ store = {} /\ inst = {}
    /\ mcp_tools = {} /\ mcp_client = {}
    /\ pc = [s \in Sessions |-> "idle"]
    /\ st \in [Sessions -> [messages : {<<>>, <<Msg("human", "user")>>},
                            user_phone : {"<none>", "9771"},
                            intent : IntentValues,
                            final_response : {"<none>", "help"}]]
    /\ turn = [s \in Sessions |-> [NewTurn(0) EXCEPT !.result = "<none>"]]
    /\ turns = 0 /\ gens = 0 /\ last = <<>>
    /\ fired = {} /\ refired = {} /\ finished = {} /\ skipped = {}
    /\ restarts = 0

RouteStep(s) ==
    /\ pc[s] = "idle"
    /\ pc' = [pc EXCEPT ![s] = DictGet(EdgeMap, route_to_agent(st[s]), "<no edge>")]
    /\ UNCHANGED <<now, schedVars, mcpVars, st, turn, turns>>

RouteNext == \E s \in Sessions : RouteStep(s)

RouteSpec == RouteInit /\ [][RouteNext]_vars

\* the job id derivation alone: one-off reminders scheduled at fire times that carry
\* a fraction of a second, as datetime.fromisoformat accepts them
Fracs == {0, 4, 5, 6}

\* the stored one-off job of a fire time given in tenths of a second
FracJob(to_number, message, tenths, gen) ==
    [id |-> job_id(to_number, tenths), to |-> to_number, msg |-> message,
     trig |-> DateTrigger(tenths), next |-> tenths, gen |-> gen]

IdSchedule ==
    \E to_number \in Numbers, message \in Bodies, sec \in 0..MaxRunDt, frac \in Fracs :
        /\ gens < MaxUpserts
        /\ scheduler' = get_scheduler(scheduler, started, store).scheduler
        /\ started' = get_scheduler(scheduler, started, store).started
        /\ gens' = gens + 1
        /\ store' = AddJob(get_scheduler(scheduler, started, store).store,
                           FracJob(to_number, message, sec * TenthsPerSec + frac, gens + 1))
        /\ UNCHANGED <<now, inst, last, histVars, mcpVars, sessVars>>

IdNext == IdSchedule

IdSpec == Init /\ [][IdNext]_vars

\* ------------------------------------------------------------ claims
\* C1: dispatch is total: the four labels go to their handlers, every other intent
\* value (any other string, or no intent) goes to unknown_handler, and the result
\* is always one of the four handlers.
C1_DispatchTotal ==
    \A s \in Sessions :
        pc[s] # "idle" =>
            /\ pc[s] \in Handlers
            /\ pc[s] = CASE st[s].intent = "travel_planning" -> "travel_agent"
                         [] st[s].intent = "reminder" -> "reminder_agent"
                         [] st[s].intent = "creative" -> "creative_agent"
                         [] OTHER -> "unknown_handler"

C1_Witness ==
    \E s \in Sessions : pc[s] = "unknown_handler" /\ st[s].intent = "weather"

\* C2: when the extractor call of intent classification raises or returns no usable
\* record, the node yields intent unknown, nothing is raised, and the turn is
\* answered by the unknown handler.
C2_ClassifyFailureNotFatal ==
    \A s \in Sessions :
        turn[s].classified \in {"<raise>", "<malformed>"} =>
            /\ st[s].intent = "unknown"
            /\ turn[s].handler = "unknown_handler"
            /\ turn[s].result = "returned"
            /\ st[s].final_response = "help"

C2_Witness ==
    \E s \in Sessions :
        /\ turn[s].classified = "<malformed>"
        /\ turn[s].result = "returned"
        /\ st[s].intent = "unknown"

\* C3: the store holds at most one job per id, and that job's recipient, message,
\* schedule and recurrence are those of the last add_job for the id.
C3_UpsertReplaces ==
    /\ \A j, k \in store : j.id = k.id => j = k
    /\ \A j \in store :
          /\ j.id \in DOMAIN last
          /\ j.gen = last[j.id].gen
          /\ j.to = last[j.id].to
          /\ j.msg = last[j.id].msg
          /\ j.trig = TriggerFor(last[j.id].run_dt, last[j.id].repeat_rule)

C3_Witness ==
    /\ gens = 2
    /\ Cardinality(DOMAIN last) = 1
    /\ \E j \in store : j.gen = 2 /\ j.msg = "stretch" /\ j.trig.kind = "cron"
    /\ restarts = 0

\* C4: a reminder turn with a resolved recipient whose time expression is "now" in
\* any letter case, or is no timestamp, adds no job and calls the Notifier exactly once.
Immediate(x) == x.text \in {"now", "NOW", "Now"} \/ x.text # "iso"

C4_ImmediateSendsOnce ==
    \A s \in Sessions :
        (turn[s].to # "<none>" /\ Immediate(turn[s].expr)) =>
            turn[s].adds = 0 /\ turn[s].sends = 1

C4_Witness ==
    \E s \in Sessions :
        /\ turn[s].expr.text = "NOW"
        /\ turn[s].to = "9772"
        /\ turn[s].result = "returned"
        /\ turn[s].sends = 1
        /\ store = {} /\ gens = 0

\* C5: every one-off job that was added and neither replaced nor discarded gets
\* exactly one delivery attempt, also when its run time is reached late or was
\* already past when it was added: once it has left the store and the executor,
\* _fire_reminder has been invoked for it, once.
C5_OneOffFiresOnce ==
    \A id \in DOMAIN last :
        LET g == last[id].gen IN
        ( /\ last[id].repeat_rule = "none"
          /\ restarts = 0
          /\ ~\E j \in store : j.gen = g
          /\ ~\E i \in inst : i.gen = g /\ i.pc = "submitted" ) =>
            (<<g, last[id].run_dt>> \in fired /\ <<g, last[id].run_dt>> \notin refired)

\* C6: for every job and every occurrence of it _fire_reminder is invoked at most
\* once, and no occurrence that has been fired is submitted again.
C6_AtMostOncePerOccurrence ==
    /\ refired = {}
    /\ \A i \in inst : i.pc = "submitted" => <<i.gen, i.run_time>> \notin fired
    /\ \A i, k \in inst : (i.gen = k.gen /\ i.run_time = k.run_time) => i = k

C6_Witness ==
    \E p, q \in fired : p[1] = q[1] /\ p[2] < q[2] /\ refired = {}

\* C7: whenever the scheduler recomputes the next run time of a recurring job, the
\* new time is strictly later than the time of the recomputation.
C7_RecomputedInFuture ==
    [][\A j \in store : \A k \in store' :
          (j.gen = k.gen /\ j.trig.kind = "cron" /\ j.next # k.next) => k.next > now']_vars

C7_Witness ==
    \E j \in store :
        /\ j.trig.kind = "cron"
        /\ \E f \in finished : f[1] = j.gen /\ f[2] < j.next
        /\ j.next > now

\* C8: a failed delivery of a daily or weekly job does not cancel it: the job (unless
\* replaced, or discarded by a restart) is still stored, armed for a later occurrence.
C8_FailureKeepsRecurring ==
    \A id \in DOMAIN last : \A f \in finished :
        ( /\ f[1] = last[id].gen
          /\ f[3] # "sent"
          /\ last[id].repeat_rule \in {"daily", "weekly"}
          /\ restarts = 0 ) =>
            \E j \in store : j.gen = f[1] /\ j.next # None /\ j.next > f[2]

C8_Witness ==
    \E f \in finished : \E p \in fired :
        /\ f[3] \in {"tool_unavailable", "tools_exception"}
        /\ p[1] = f[1]
        /\ p[2] > f[2]
        /\ \E j \in store : j.gen = f[1]

\* C9: a job that is pending when the process restarts is reloaded and re-armed on
\* startup: it is in the store after the restart.
C9_PendingSurvivesRestart ==
    [][\A j \in store : restarts' # restarts => \E k \in store' : k.gen = j.gen]_vars

\* C10: a job whose delivery is running when the process stops is re-armed as pending
\* after the restart.
C10_FiringRecoveredAfterRestart ==
    [][\A i \in inst :
          (restarts' # restarts /\ i.pc # "submitted") => \E k \in store' : k.gen = i.gen]_vars

\* C11: a Notifier call that times out ends the turn with the send-failed response
\* (a Failed result), never with an exception out of the handler; and a one-off job
\* whose delivery attempt failed is neither stored nor submitted again.
C11_TimeoutIsFailedResult ==
    /\ \A s \in Sessions :
          (turn[s].handler = "reminder_agent" /\ turn[s].io = "timeout") =>
              /\ turn[s].result = "returned"
              /\ st[s].final_response = "send_failed"
    /\ \A id \in DOMAIN last : \A f \in finished :
          (f[1] = last[id].gen /\ f[3] # "sent" /\ last[id].repeat_rule = "none") =>
              /\ ~\E j \in store : j.gen = f[1]
              /\ ~\E i \in inst : i.gen = f[1]

\* C12: when reminder-field extraction fails, be it the extractor call or obtaining
\* the structured extractor, the turn returns the parse-error response, adds no job
\* and does not call the Notifier.
C12_ExtractionFailureAnswered ==
    \A s \in Sessions :
        turn[s].extract \in {"no_extractor", "failed"} =>
            /\ turn[s].result = "returned"
            /\ st[s].final_response = "parse_error"
            /\ turn[s].adds = 0
            /\ turn[s].sends = 0

\* C13: a reminder turn whose extraction carries no recipient and whose session has
\* no default address returns the response asking for an address, adds or replaces
\* no job and does not call the Notifier, whatever its time expression and recurrence.
C13_NoRecipientAsksForAddress ==
    \A s \in Sessions :
        ( /\ turn[s].extract = "ok"
          /\ turn[s].override \in {"<none>", ""}
          /\ st[s].user_phone \in {"<none>", ""} ) =>
            /\ turn[s].result = "returned"
            /\ st[s].final_response = "need_phone"
            /\ turn[s].path = "<none>"
            /\ turn[s].adds = 0
            /\ turn[s].sends = 0
            /\ turn[s].gen = 0

C13_Witness ==
    \E s \in Sessions :
        /\ turn[s].extract = "ok"
        /\ turn[s].override = "<none>"
        /\ st[s].user_phone = "<none>"
        /\ turn[s].expr.text = "iso"
        /\ turn[s].rule = "daily"
        /\ st[s].final_response = "need_phone"
        /\ gens = 0

\* C14: the recipient passed to the Notifier or to the scheduled job is the
\* extraction's override when it has one and the session's default address
\* otherwise; with an override and an immediate time the Notifier is called once
\* with the override and no job is added.
C14_RecipientResolution ==
    \A s \in Sessions :
        LET expected == IF turn[s].override \in {"<none>", ""}
                        THEN st[s].user_phone ELSE turn[s].override
        IN  turn[s].path \in {"send_now", "schedule"} =>
              /\ turn[s].to = expected
              /\ \A j \in store : j.gen = turn[s].gen => j.to = expected
              /\ (turn[s].path = "send_now" /\ turn[s].override \in Numbers) =>
                    (turn[s].sends = 1 /\ turn[s].adds = 0 /\ turn[s].gen = 0)

C14_Witness ==
    \E s \in Sessions :
        /\ turn[s].path = "send_now"
        /\ turn[s].override = "9772"
        /\ st[s].user_phone = "9771"
        /\ turn[s].to = "9772"
        /\ turn[s].result = "returned"
        /\ store = {} /\ gens = 0

\* C15: a reminder turn with a resolved recipient and a time expression that parses
\* as a timestamp adds exactly one job, armed, with that recipient, message and fire
\* time and the extracted recurrence (none when the tag is absent), leaves every
\* other job alone, returns the confirmation and does not call the Notifier.
C15_ParseableTimeUpserts ==
    [][\A s \in Sessions :
          ( /\ turn[s].extract # "ok"
            /\ turn'[s].extract = "ok"
            /\ turn'[s].to \notin {"<none>", ""}
            /\ turn'[s].expr.text = "iso" ) =>
              /\ gens' = gens + 1
              /\ \E j \in store' :
                    /\ j.gen = gens'
                    /\ j.to = turn'[s].to
                    /\ j.msg = turn'[s].msg
                    /\ j.next = turn'[s].expr.t
                    /\ j.trig.kind = (IF turn'[s].rule \in {"daily", "weekly"}
                                      THEN "cron" ELSE "date")
                    /\ (j.trig.dow = AnyDay) = (turn'[s].rule # "weekly")
                    /\ store' \ {j} \subseteq store
              /\ turn'[s].result = "returned"
              /\ st'[s].final_response = "scheduled"
              /\ turn'[s].sends = 0]_vars

\* C16: an immediate send made while the tool provider cannot be reached, or while
\* the cached tools do not include send_whatsapp_message, ends with the
\* tool-unavailable response, raises nothing and makes no call to the send tool.
C16_UnavailableIsFailedResult ==
    \A s \in Sessions :
        ( /\ turn[s].path = "send_now"
          /\ turn[s].result \in {"returned", "raised"}
          /\ \/ turn[s].io = "unreachable"
             \/ restarts = 0 /\ turn[s].io # "timeout"
                /\ "send_whatsapp_message" \notin mcp_tools ) =>
            /\ turn[s].result = "returned"
            /\ st[s].final_response = "tool_unavailable"
            /\ turn[s].calls = 0

\* C17: every send, from a turn or from a fired job, ends with a result and never
\* with an exception, whatever error the network or the provider produced; it
\* reports sent only when the provider accepted the message, and it calls the send
\* tool at most once.
C17_SendErrorsNormalized ==
    /\ \A s \in Sessions :
          (turn[s].sends > 0 /\ turn[s].result \in {"returned", "raised"}) =>
              /\ turn[s].result = "returned"
              /\ st[s].final_response
                    \in {"sent", "send_failed", "send_exception", "tool_unavailable"}
              /\ st[s].final_response = "sent" => turn[s].io = "accepted"
              /\ turn[s].calls <= 1
    /\ \A f \in finished :
          f[3] \in {"sent", "send_failed", "send_exception", "tool_unavailable"}

\* C18: a recurring job keeps its anchor: every firing of a daily job is at the time
\* of day of the timestamp it was scheduled with, every firing of a weekly job also
\* on that timestamp's day of the week, consecutive firings are one day (daily) or
\* seven days (weekly) apart, and the job stays armed as long as it is not replaced.
C18_RecurringKeepsAnchor ==
    \A id \in DOMAIN last :
        LET a == last[id]
            period == IF a.repeat_rule = "daily" THEN DayLen ELSE WeekLen
            runs == {p \in fired : p[1] = a.gen}
        IN  a.repeat_rule \in {"daily", "weekly"} =>
              /\ \A p \in runs :
                    /\ p[2] % DayLen = a.run_dt % DayLen
                    /\ a.repeat_rule = "weekly" => DayOfWeek(p[2]) = DayOfWeek(a.run_dt)
              /\ \A p, q \in runs :
                    (p[2] < q[2] /\ ~\E x \in runs : p[2] < x[2] /\ x[2] < q[2]) =>
                        q[2] - p[2] = period
              /\ restarts = 0 => \E j \in store : j.gen = a.gen /\ j.next # None

\* C19: the timestamp a recurring job was scheduled with is the time of its first
\* delivery: when it lies more than a day ahead, the job is never armed for an
\* earlier time and _fire_reminder is not invoked for it before that time.
C19_FirstDeliveryAtFireAt ==
    \A id \in DOMAIN last :
        LET a == last[id]
        IN  (a.repeat_rule \in {"daily", "weekly"} /\ a.far) =>
              /\ \A j \in store : j.gen = a.gen => j.next >= a.run_dt
              /\ \A p \in fired : p[1] = a.gen => p[2] >= a.run_dt

\* C20: an add_job for an id of which a run is being evaluated or delivered leaves
\* the new definition stored and armed; the old run neither removes nor changes it
\* when it proceeds or ends; and _fire_reminder is not started for the old
\* definition once the id has been added again.
C20_UpsertDuringFiring ==
    [][/\ gens' # gens =>
            \E j \in store' :
                /\ j.gen = gens' /\ j.next # None
                /\ \A k \in store' : k.id = j.id => k = j
       /\ \A i \in inst :
            ( /\ i.id \in DOMAIN last
              /\ last[i.id].gen > i.gen
              /\ restarts' = restarts ) =>
                /\ i \notin inst' => store' = store
                /\ <<i.gen, i.run_time>> \notin (fired' \ fired)]_vars

\* C21: for one job id the steps are ordered: a run is submitted only for a stored,
\* due job of that id of which no run is in flight; _fire_reminder starts only for
\* a submitted run; a run ends only after it was submitted, and with a one-off job
\* gone from the store or a recurring one armed for a later time; and two runs of
\* the same id are never in flight together (a second one is refused).
C21_OrderedPerJobId ==
    [][/\ \A i, k \in inst' : i.id = k.id => i = k
       /\ \A i \in inst' \ inst :
            IF i.pc = "submitted"
            THEN /\ \E j \in store : j.id = i.id /\ j.gen = i.gen
                                       /\ j.next # None /\ j.next <= now
                 /\ ~\E k \in inst : k.id = i.id
                 /\ \A j \in store' : j.gen = i.gen => j.next > i.run_time
            ELSE \E k \in inst : k.id = i.id /\ k.gen = i.gen /\ k.run_time = i.run_time
                                  /\ k.pc \in {"submitted", "load"} /\ k \notin inst'
       /\ \A p \in fired' \ fired :
            \E i \in inst : i.pc = "submitted" /\ <<i.gen, i.run_time>> = p
       /\ \A f \in finished' \ finished :
            \E i \in inst : /\ <<i.gen, i.run_time>> = <<f[1], f[2]>>
                             /\ <<i.gen, i.run_time>> \in fired'
                             /\ i \notin inst'
                             /\ \A j \in store' : j.gen = i.gen => j.next > i.run_time]_vars

\* a one-off job added again under the id of a run still in flight was due and got
\* no run of its own: the executor refused it
C21_Witness ==
    \E i \in inst :
        /\ i.id \in DOMAIN last
        /\ last[i.id].gen > i.gen
        /\ last[i.id].repeat_rule = "none"
        /\ ~\E j \in store : j.id = i.id
        /\ ~\E k \in inst : k.gen = last[i.id].gen
        /\ \A p \in fired \cup skipped : p[1] # last[i.id].gen
        /\ restarts = 0

\* C22: a reminder turn whose extraction has an empty message text is answered with
\* a request for clarification; it adds or replaces no job and sends nothing.
C22_EmptyMessageRejected ==
    \A s \in Sessions :
        (turn[s].extract = "ok" /\ turn[s].msg = "") =>
            /\ turn[s].result = "returned"
            /\ st[s].final_response \in {"need_phone", "need_message"}
            /\ turn[s].adds = 0
            /\ turn[s].sends = 0
            /\ turn[s].gen = 0

\* C23: no step of any turn changes the session's default address, and a turn whose
\* extraction gives no recipient uses the session's default address, also when an
\* earlier turn of the session was given another recipient.
C23_DefaultAddressCarried ==
    [][\A s \in Sessions :
          /\ st'[s].user_phone = st[s].user_phone
          /\ ( /\ turn'[s].path \in {"send_now", "schedule"}
               /\ turn'[s].override \in {"<none>", ""} ) =>
                  /\ turn'[s].to = st[s].user_phone
                  /\ \A j \in store' : j.gen = turn'[s].gen => j.to = st[s].user_phone]_vars

C23_Witness ==
    \E s \in Sessions :
        /\ turn[s].n = 2
        /\ turn[s].path = "schedule"
        /\ turn[s].override = "<none>"
        /\ st[s].user_phone = "9771"
        /\ \E j, k \in store :
              /\ j.gen = 1 /\ j.to = "9772"
              /\ k.gen = 2 /\ k.to = "9771"

\* C24: the message history only grows at its end, and every turn that a handler
\* answers leaves the handler's response as the last message of the history, as an
\* assistant message equal to final_response.
C24_HistoryAppendOnly ==
    [][\A s \in Sessions :
          /\ Len(st'[s].messages) >= Len(st[s].messages)
          /\ SubSeq(st'[s].messages, 1, Len(st[s].messages)) = st[s].messages
          /\ (turn'[s] # turn[s] /\ turn'[s].result = "returned") =>
                /\ st'[s].messages # <<>>
                /\ st'[s].messages[Len(st'[s].messages)] = Msg("ai", st'[s].final_response)]_vars

\* C25: job ids are injective on (recipient, fire time): a schedule operation
\* replaces a stored reminder only if the new reminder has the same recipient and
\* the same fire time.
C25_JobIdInjective ==
    [][\A j \in store : j \notin store' =>
          \E k \in store' \ store : k.to = j.to /\ k.next = j.next]_vars

\* C26: the tool lookup does not depend on the call history: once a first call has
\* filled the cache, a call for any servers S returns the tools the servers in S
\* provide, and no turn is answered that its tool is unavailable.
C26_LookupIndependentOfHistory ==
    /\ mcp_tools # {} =>
          \A S \in (SUBSET Servers) \ {{}} : FilterTools(mcp_tools, S) = LoadedTools(S)
    /\ \A s \in Sessions :
          turn[s].result = "returned" =>
              st[s].final_response \notin {"tool_unavailable", "moodboard_unavailable"}

\* C27: the tool cache is initialised once under concurrency: of the turns and job
\* firings that found the cache empty, at most one has opened a client and waits
\* for it.
C27_CacheInitialisedOnce ==
    Cardinality({s \in Sessions : pc[s] = "load"})
        + Cardinality({i \in inst : i.pc = "load"}) <= 1

\* C28: generate_moodboard makes at most 2 provider calls; when every call succeeds
\* it returns a result with one image per call and no error; when a call fails it
\* stops and returns the images collected so far with the error set.
C28_MoodboardResult ==
    \A s \in Sessions :
        turn[s].mb # NoMoodboard =>
            /\ turn[s].mb.calls <= 2
            /\ turn[s].mb.returned = "MoodboardResult"
            /\ turn[s].mb.images = turn[s].mb.calls
                  => turn[s].mb.error = "<none>"
            /\ turn[s].mb.images # turn[s].mb.calls
                  => turn[s].mb.images = turn[s].mb.calls - 1 /\ turn[s].mb.error # "<none>"

\* C29: the scheduler is a singleton of the process: however many turns schedule,
\* one scheduler is constructed and started, every schedule operation uses it, and
\* the jobs stored before a schedule operation are still in the store after it,
\* unless the operation replaced the job of the same id.
C29_SchedulerSingleton ==
    [][/\ started' <= 1
       /\ (scheduler' = "started") <=> (started' = 1)
       /\ store' # {} => scheduler' = "started"
       /\ gens' # gens =>
             /\ scheduler' = "started"
             /\ scheduler = "started" => started' = started
             /\ \A j \in store : j \in store' \/ \E k \in store' \ store : k.id = j.id]_vars

\* two turns of one process have scheduled, and both jobs are stored
C29_Witness ==
    /\ restarts = 0
    /\ started = 1
    /\ gens = 2
    /\ \E j, k \in store : j.gen = 1 /\ k.gen = 2
    /\ \A s \in Sessions : turn[s].n = 2 /\ turn[s].path = "schedule"

====
